---- MODULE Spec2Model ----
(***************************************************************************)
(* Model of the AEM -> MLE synchronisation service                         *)
(* (aem-mle-sync-service.js): webhook signature verification, event-type   *)
(* filtering, approval gate, metadata transformation, OAuth token cache    *)
(* and outbound MLE API dispatch.                                          *)
(*                                                                         *)
(* JavaScript values are modelled as tagged records (Str, Num, Arr, Bool,  *)
(* Undef), strings as TLA+ strings manipulated character by character,     *)
(* header signatures as sequences of character codes, and every await of   *)
(* the handler as a point where other handlers may run.                    *)
(***************************************************************************)
EXTENDS Integers, Sequences, FiniteSets, TLC

VARIABLES
    secret,        \* CONFIG.aemWebhookSecret
    now,           \* Date.now(), milliseconds
    accessToken,   \* tokenManager.accessToken
    tokenExpiry,   \* tokenManager.tokenExpiry
    req,           \* one record per webhook request being handled
    sigTrial,      \* one application of verifyWebhookSignature
    fnTrial,       \* one application of a pure function of the processor
    act            \* one activation of the serverless action (main)

vars == <<secret, now, accessToken, tokenExpiry, req, sigTrial, fnTrial, act>>

(***************************************************************************)
(* Bounds                                                                  *)
(***************************************************************************)
MaxReqs == 2
MaxNow == 60000
TickMs == 30000
PayloadBits == 3

(***************************************************************************)
(* JavaScript values                                                       *)
(***************************************************************************)
Undef == [t |-> "undef"]
Null == [t |-> "null"]
Str(s) == [t |-> "str", s |-> s]
Num(n) == [t |-> "num", n |-> n]
Arr(a) == [t |-> "arr", a |-> a]
Bool(b) == [t |-> "bool", b |-> b]

IsStr(v) == v.t = "str"

Truthy(v) ==
    CASE v.t = "undef" -> FALSE
      [] v.t = "null" -> FALSE
      [] v.t = "str" -> v.s # ""
      [] v.t = "num" -> v.n # 0
      [] v.t = "bool" -> v.b
      [] OTHER -> TRUE

\* a || b
Or(a, b) == IF Truthy(a) THEN a ELSE b

\* a plain object: a function from its own property names to values
Obj(f) == [t |-> "obj", f |-> f]

IsObj(v) == v.t = "obj"

\* obj[key] on a plain object
Get(obj, key) == IF key \in DOMAIN obj.f THEN obj.f[key] ELSE Undef

Keys(obj) == DOMAIN obj.f

EmptyObject == Obj([k \in {} |-> Undef])

(***************************************************************************)
(* String primitives                                                       *)
(***************************************************************************)
CharAt(s, i) == SubSeq(s, i, i)

Includes(s, sub) ==
    \E i \in 1..(Len(s) - Len(sub) + 1) : SubSeq(s, i, i + Len(sub) - 1) = sub

StartsWith(s, prefix) ==
    Len(prefix) <= Len(s) /\ SubSeq(s, 1, Len(prefix)) = prefix

UpperChars == "ABCDEFGHIJKLMNOPQRSTUVWXYZ"
LowerChars == "abcdefghijklmnopqrstuvwxyz"

LowerChar(c) ==
    IF \E i \in 1..26 : CharAt(UpperChars, i) = c
    THEN CharAt(LowerChars, CHOOSE i \in 1..26 : CharAt(UpperChars, i) = c)
    ELSE c

RECURSIVE ToLowerCase(_)
ToLowerCase(s) ==
    IF s = "" THEN ""
    ELSE LowerChar(CharAt(s, 1)) \o ToLowerCase(SubSeq(s, 2, Len(s)))

\* index of the last occurrence of the one-character string c in s, 0 if none
RECURSIVE lastIndexFrom(_, _, _)
lastIndexFrom(s, c, i) ==
    IF i = 0 THEN 0
    ELSE IF CharAt(s, i) = c THEN i
    ELSE lastIndexFrom(s, c, i - 1)

LastIndexOf(s, c) == lastIndexFrom(s, c, Len(s))

\* s.split(c).pop()
SplitPop(s, c) == SubSeq(s, LastIndexOf(s, c) + 1, Len(s))

(***************************************************************************)
(* Webhook signature verification                                          *)
(***************************************************************************)
Secrets == {"s3cr3t", "0ther"}

KeyCode(key) == IF key = "s3cr3t" THEN 1 ELSE IF key = "0ther" THEN 2 ELSE 0

\* crypto.createHmac('sha256', secret).update(payload).digest(): the digest
\* is shortened to two bytes and is collision-free on the payloads used
HmacSha256(payload, key) ==
    << (37 * payload + 59 * KeyCode(key) + 11) % 256,
       (91 * payload + 13 * (payload \div 256) + 3 * KeyCode(key) + 200) % 256 >>

HexDigit(d) == IF d < 10 THEN 48 + d ELSE 87 + d

\* .digest('hex'): lower-case hex, as character codes
RECURSIVE HexEncode(_)
HexEncode(bytes) ==
    IF bytes = <<>> THEN <<>>
    ELSE <<HexDigit(Head(bytes) \div 16), HexDigit(Head(bytes) % 16)>>
            \o HexEncode(Tail(bytes))

Unhex(c) ==
    IF c \in 48..57 THEN c - 48
    ELSE IF c \in 97..102 THEN c - 87
    ELSE IF c \in 65..70 THEN c - 55
    ELSE -1

\* Buffer.from(chars, 'hex'): decodes pairs of hex digits of either case and
\* stops at the first pair that is not hex; a trailing odd character is dropped
RECURSIVE BufferFromHex(_)
BufferFromHex(chars) ==
    IF Len(chars) < 2 THEN <<>>
    ELSE IF Unhex(chars[1]) = -1 \/ Unhex(chars[2]) = -1 THEN <<>>
    ELSE <<16 * Unhex(chars[1]) + Unhex(chars[2])>>
            \o BufferFromHex(SubSeq(chars, 3, Len(chars)))

\* crypto.timingSafeEqual: RangeError when the byte lengths differ
timingSafeEqual(a, b) ==
    IF Len(a) # Len(b) THEN "throw"
    ELSE IF a = b THEN "true" ELSE "false"

verifyWebhookSignature(payload, signature, key) ==
    LET expectedSignature == HexEncode(HmacSha256(payload, key))
    IN  timingSafeEqual(BufferFromHex(signature), BufferFromHex(expectedSignature))

(***************************************************************************)
(* Configuration                                                           *)
(***************************************************************************)
MleApiUrl == "https://your-mle-system.com/api"
MleApiVersion == "v1"
AemAuthorUrl == "https://author.example.com"
AemPublishUrl == "https://publish.example.com"

(***************************************************************************)
(* MetadataTransformer                                                     *)
(***************************************************************************)
\* the last segment with everything after its first dot removed
extractAssetIdFromPath_FirstDot(assetPath) ==
    LET segment == SplitPop(assetPath, "/")
        dots == {i \in 1..Len(segment) : CharAt(segment, i) = "."}
        dot == IF dots = {} THEN 0 ELSE CHOOSE i \in dots : \A j \in dots : i <= j
    IN  IF dot > 0 /\ dot < Len(segment) THEN SubSeq(segment, 1, dot - 1) ELSE segment

\* assetPath.split('/').pop().replace(/\.[^/.]+$/, '')
extractAssetIdFromPath(assetPath) ==
    LET segment == SplitPop(assetPath, "/")
        dot == LastIndexOf(segment, ".")
    IN  IF dot > 0 /\ dot < Len(segment) THEN SubSeq(segment, 1, dot - 1) ELSE segment

extractFileNameFromPath(assetPath) == SplitPop(assetPath, "/")

mimeTypes ==
    [jpg |-> "image/jpeg", jpeg |-> "image/jpeg", png |-> "image/png",
     gif |-> "image/gif", svg |-> "image/svg+xml", mp4 |-> "video/mp4",
     mov |-> "video/quicktime", pdf |-> "application/pdf", txt |-> "text/plain"]

\* the properties every object literal inherits from Object.prototype
inheritedProperties ==
    {"constructor", "__proto__", "toString", "toLocaleString", "valueOf",
     "hasOwnProperty", "isPrototypeOf", "propertyIsEnumerable",
     "__defineGetter__", "__defineSetter__", "__lookupGetter__", "__lookupSetter__"}

\* Object.prototype itself, and a function found on it
ObjectPrototype == [t |-> "proto"]
Fn(name) == [t |-> "fn", name |-> name]

\* mimeTypes[extension]: an own entry, else what the prototype chain holds
mimeTypesLookup(extension) ==
    IF extension \in DOMAIN mimeTypes THEN Str(mimeTypes[extension])
    ELSE IF extension = "__proto__" THEN ObjectPrototype
    ELSE IF extension \in inheritedProperties THEN Fn(extension)
    ELSE Undef

\* the result is a JS value: a string, or whatever the lookup found
getMimeTypeFromPath(assetPath) ==
    LET extension == ToLowerCase(SplitPop(assetPath, "."))
    IN  Or(mimeTypesLookup(extension), Str("application/octet-stream"))

\* mimeType: a JS value that is falsy or a string (startsWith raises a
\* TypeError on any other value, see transformForMLE)
getMediaType(mimeType) ==
    IF ~Truthy(mimeType) THEN "unknown"
    ELSE IF StartsWith(mimeType.s, "image/") THEN "image"
    ELSE IF StartsWith(mimeType.s, "video/") THEN "video"
    ELSE IF StartsWith(mimeType.s, "audio/") THEN "audio"
    ELSE IF Includes(mimeType.s, "pdf") THEN "document"
    ELSE IF Includes(mimeType.s, "text/") THEN "text"
    ELSE "other"

\* the loop over the approval fields shared by getApprovalStatus and
\* isAssetApproved: "true" at the first approved field, "throw" at a truthy
\* value without toLowerCase, "false" when the fields are exhausted
RECURSIVE approvalScan(_, _, _)
approvalScan(metadata, approvalFields, i) ==
    IF i > Len(approvalFields) THEN "false"
    ELSE LET value == Get(metadata, approvalFields[i])
         IN  IF ~Truthy(value) THEN approvalScan(metadata, approvalFields, i + 1)
             ELSE IF ~IsStr(value) THEN "throw"
             ELSE IF ToLowerCase(value.s) = "approved" \/ ToLowerCase(value.s) = "published"
                  THEN "true"
             ELSE approvalScan(metadata, approvalFields, i + 1)

transformerApprovalFields == <<"dam:status", "dam:approvalStatus", "cq:workflowStatus">>

getApprovalStatus(metadata) ==
    LET scan == approvalScan(metadata, transformerApprovalFields, 1)
    IN  IF scan = "throw" THEN "throw"
        ELSE IF scan = "true" THEN "approved" ELSE "pending"

Throw == [t |-> "throw"]

\* Array.isArray(v) ? v : [v]
asArray(v) == IF v.t = "arr" THEN v.a ELSE <<v>>

\* what tags.push(...) appends for one source field
pushed(metadata, field) ==
    IF Truthy(Get(metadata, field)) THEN asArray(Get(metadata, field)) ELSE <<>>

IsPrimitive(v) == v.t \in {"undef", "null", "str", "num", "bool"}

\* [...new Set(items)]: the first occurrence of each value, in order; values
\* that are objects are compared by identity and are all distinct
RECURSIVE spreadSetFrom(_, _)
spreadSetFrom(items, i) ==
    IF i > Len(items) THEN <<>>
    ELSE (IF IsPrimitive(items[i]) /\ \E j \in 1..(i - 1) : items[j] = items[i]
          THEN <<>> ELSE <<items[i]>>)
         \o spreadSetFrom(items, i + 1)

spreadSet(items) == spreadSetFrom(items, 1)

\* extraction that returns the collected values as they are
extractTags_NoSet(metadata) ==
    pushed(metadata, "cq:tags") \o pushed(metadata, "dam:tags")

extractTags(metadata) ==
    spreadSet(pushed(metadata, "cq:tags") \o pushed(metadata, "dam:tags"))

extractCategories(metadata) ==
    spreadSet(pushed(metadata, "dc:subject") \o pushed(metadata, "dam:category"))

extractKeywords(metadata) == spreadSet(pushed(metadata, "dc:keywords"))

standardFields ==
    {"jcr:uuid", "jcr:created", "jcr:lastModified", "jcr:title",
     "dc:title", "dc:description", "dc:format", "dc:rights", "dc:creator",
     "dc:subject", "dc:keywords",
     "dam:size", "dam:status", "dam:brand", "dam:campaign", "dam:productType",
     "dam:usage", "dam:altText",
     "tiff:ImageWidth", "tiff:ImageLength", "tiff:ColorSpace", "tiff:XResolution",
     "tiff:Orientation",
     "exif:PixelXDimension", "exif:PixelYDimension",
     "cq:tags", "cq:workflowStatus",
     "xmpRights:UsageTerms"}

extractCustomMetadata(metadata) ==
    Obj([key \in {k \in Keys(metadata) :
                    /\ k \notin standardFields
                    /\ ~StartsWith(k, "jcr:")
                    /\ ~StartsWith(k, "rep:")} |-> metadata.f[key]])

constructAssetUrl(assetPath) == AemAuthorUrl \o assetPath

\* a public URL that carries the time of the call
constructPublicUrl_Stamped(assetPath) ==
    AemPublishUrl \o assetPath \o "?t=" \o ToString(now)

constructPublicUrl(assetPath) == AemPublishUrl \o assetPath

\* new Date().toISOString()
toISOString(ms) == [t |-> "date", ms |-> ms]

\* the transformed record; a TypeError raised while building it is the
\* value Throw
transformForMLE(aemMetadata, assetPath, eventType) ==
    LET format == Get(aemMetadata, "dc:format")
        uuid == Get(aemMetadata, "jcr:uuid")
    IN  IF ~IsStr(assetPath) THEN Throw
        ELSE LET mimeType == Or(format, getMimeTypeFromPath(assetPath.s))
             IN  IF Truthy(mimeType) /\ ~IsStr(mimeType) THEN Throw
                 ELSE IF getApprovalStatus(aemMetadata) = "throw" THEN Throw
                 ELSE
                 [assetId |-> Or(uuid, Str(extractAssetIdFromPath(assetPath.s))),
                  assetPath |-> assetPath,
                  assetUrl |-> constructAssetUrl(assetPath.s),
                  publicUrl |-> constructPublicUrl(assetPath.s),
                  mediaType |-> getMediaType(mimeType),
                  mimeType |-> mimeType,
                  fileSize |-> Get(aemMetadata, "dam:size"),
                  fileName |-> extractFileNameFromPath(assetPath.s),
                  dimensions |->
                      [width |-> Or(Get(aemMetadata, "tiff:ImageWidth"),
                                    Get(aemMetadata, "exif:PixelXDimension")),
                       height |-> Or(Get(aemMetadata, "tiff:ImageLength"),
                                     Get(aemMetadata, "exif:PixelYDimension"))],
                  title |-> Or(Get(aemMetadata, "dc:title"), Get(aemMetadata, "jcr:title")),
                  description |-> Get(aemMetadata, "dc:description"),
                  altText |-> Or(Get(aemMetadata, "dam:altText"), Get(aemMetadata, "dc:title")),
                  tags |-> extractTags(aemMetadata),
                  categories |-> extractCategories(aemMetadata),
                  keywords |-> extractKeywords(aemMetadata),
                  brand |-> Get(aemMetadata, "dam:brand"),
                  campaign |-> Get(aemMetadata, "dam:campaign"),
                  productType |-> Get(aemMetadata, "dam:productType"),
                  usage |-> Or(Get(aemMetadata, "dam:usage"), Str("web")),
                  approvalStatus |-> getApprovalStatus(aemMetadata),
                  publishStatus |-> "published",
                  workflowStatus |-> Get(aemMetadata, "cq:workflowStatus"),
                  createdDate |-> Or(Get(aemMetadata, "jcr:created"),
                                     Get(aemMetadata, "dam:created")),
                  modifiedDate |-> Or(Get(aemMetadata, "jcr:lastModified"),
                                      Get(aemMetadata, "dam:lastModified")),
                  publishedDate |-> toISOString(now),
                  colorSpace |-> Get(aemMetadata, "tiff:ColorSpace"),
                  resolution |-> Get(aemMetadata, "tiff:XResolution"),
                  orientation |-> Get(aemMetadata, "tiff:Orientation"),
                  copyright |-> Get(aemMetadata, "dc:rights"),
                  license |-> Get(aemMetadata, "xmpRights:UsageTerms"),
                  creator |-> Get(aemMetadata, "dc:creator"),
                  eventType |-> eventType,
                  sourceSystem |-> "AEM",
                  apiVersion |-> MleApiVersion,
                  customMetadata |-> extractCustomMetadata(aemMetadata)]

(***************************************************************************)
(* MLEClient                                                               *)
(***************************************************************************)
\* error.response of an axios failure: Undef when no response was received
HttpError(status) == [response |-> [t |-> "obj", status |-> status]]
NetworkError == [response |-> Undef]

\* new Error('Authentication failed'), thrown by getAccessToken
AuthenticationFailed == [response |-> Undef]

\* classification that forgets the rate limit
isRetryableError_ServerOnly(error) ==
    IF ~Truthy(error.response) THEN TRUE
    ELSE error.response.status >= 500

isRetryableError(error) ==
    IF ~Truthy(error.response) THEN TRUE
    ELSE error.response.status >= 500 \/ error.response.status = 429

\* error.response?.status
errorStatus(error) ==
    IF Truthy(error.response) THEN Num(error.response.status) ELSE Undef

\* the value returned by the catch block of each operation
sendAssetMetadataFailed(error) ==
    Obj([success |-> Bool(FALSE), error |-> errorStatus(error),
         retryable |-> Bool(isRetryableError(error))])

updateAssetMetadataFailed(error) ==
    Obj([success |-> Bool(FALSE), error |-> errorStatus(error),
         retryable |-> Bool(isRetryableError(error))])

deleteAssetFailed(error) ==
    Obj([success |-> Bool(FALSE), error |-> errorStatus(error)])

operationFailed(op, error) ==
    CASE op = "create" -> sendAssetMetadataFailed(error)
      [] op = "update" -> updateAssetMetadataFailed(error)
      [] op = "remove" -> deleteAssetFailed(error)

operationSucceeded(op, status) ==
    Obj([success |-> Bool(TRUE), httpStatus |-> Num(status)])

assetsEndpoint == MleApiUrl \o "/" \o MleApiVersion \o "/assets"

\* the HTTP request each operation issues
operationRequest(op, assetId) ==
    CASE op = "create" -> [method |-> "POST", url |-> assetsEndpoint]
      [] op = "update" -> [method |-> "PUT", url |-> assetsEndpoint \o "/" \o assetId.s]
      [] op = "remove" -> [method |-> "DELETE", url |-> assetsEndpoint \o "/" \o assetId.s]

(***************************************************************************)
(* EventProcessor                                                          *)
(***************************************************************************)
processableEvents ==
    <<"com.adobe.aem.assets.metadata.updated",
      "com.adobe.aem.workflow.completed",
      "com.adobe.aem.assets.created",
      "com.adobe.aem.assets.updated",
      "com.adobe.aem.assets.deleted",
      "com.adobe.aem.assets.removed">>

\* event.split('.').pop() of each processable event
processableSuffixes ==
    [i \in 1..Len(processableEvents) |-> SplitPop(processableEvents[i], ".")]

shouldProcessEvent(eventType) ==
    \E i \in 1..Len(processableEvents) : Includes(eventType, processableSuffixes[i])

gateApprovalFields ==
    <<"dam:status", "dam:approvalStatus", "cq:workflowStatus",
      "jcr:content/metadata/dam:status">>

\* metadata[field] on undefined raises a TypeError
isAssetApproved(metadata) ==
    IF ~IsObj(metadata) THEN "throw"
    ELSE approvalScan(metadata, gateApprovalFields, 1)

\* selection that tests the removal before the creation
selectOperation_RemoveFirst(eventType) ==
    IF Includes(eventType, "deleted") \/ Includes(eventType, "removed") THEN "remove"
    ELSE IF Includes(eventType, "created") \/ Includes(eventType, "published") THEN "create"
    ELSE IF Includes(eventType, "updated") \/ Includes(eventType, "modified") THEN "update"
    ELSE "create"

\* the operation the event type selects
selectOperation(eventType) ==
    IF Includes(eventType, "created") \/ Includes(eventType, "published") THEN "create"
    ELSE IF Includes(eventType, "updated") \/ Includes(eventType, "modified") THEN "update"
    ELSE IF Includes(eventType, "deleted") \/ Includes(eventType, "removed") THEN "remove"
    ELSE "create"

\* const { assetPath, metadata, eventType } = eventData
destructure(eventData) ==
    [assetPath |-> Get(eventData, "assetPath"),
     metadata |-> Get(eventData, "metadata"),
     eventType |-> Get(eventData, "eventType")]

(***************************************************************************)
(* Webhook requests: bodies, headers                                       *)
(***************************************************************************)
eventTypes ==
    <<Str("com.adobe.aem.assets.created"),
      Str("com.adobe.aem.assets.updated"),
      Str("com.adobe.aem.assets.deleted"),
      Str("com.adobe.aem.assets.removed"),
      Str("com.adobe.aem.assets.metadata.updated"),
      Str("com.adobe.aem.workflow.completed"),
      Str("com.adobe.aem.assets.published"),
      Str("com.adobe.aem.page.updated"),
      Str("com.adobe.aem.page.viewed"),
      Undef>>

metadataSamples ==
    <<EmptyObject,
      Obj(("dam:status" :> Str("approved")) @@ ("dc:title" :> Str("T")) @@ ("jcr:uuid" :> Str("u1"))),
      Obj(("dam:status" :> Str("draft")) @@ ("dc:title" :> Str("T")) @@ ("jcr:uuid" :> Str("u1"))),
      Obj(("dam:status" :> Str("Published"))),
      Obj(("dam:status" :> Num(5)) @@ ("jcr:uuid" :> Str("u1"))),
      Obj(("jcr:content/metadata/dam:status" :> Str("approved")) @@ ("jcr:uuid" :> Str("u1"))),
      Obj(("cq:workflowStatus" :> Arr(<<"approved">>)) @@ ("jcr:uuid" :> Str("u1"))),
      Obj(("dam:status" :> Str("approved")) @@ ("jcr:uuid" :> Str("u1")) @@ ("dc:format" :> Num(7)))>>

AssetPath == "/content/dam/p.jpg"

\* "documented": { event_type, data: { payload: { path, metadata } } };
\* "flat": the same with assetPath, metadata and eventType at the top level
bodyShapes == <<"documented", "flat">>

bodyFormats == <<"compact", "pretty">>

documentedBody(et, md) ==
    ("event_type" :> eventTypes[et])
    @@ ("data" :> Obj([payload |-> Obj([path |-> Str(AssetPath),
                                       metadata |-> metadataSamples[md]])]))

bodyObject(et, md, shape) ==
    IF shape = 1 THEN Obj(documentedBody(et, md))
    ELSE Obj(documentedBody(et, md)
             @@ ("assetPath" :> Str(AssetPath))
             @@ ("metadata" :> metadataSamples[md])
             @@ ("eventType" :> eventTypes[et]))

\* the raw request body: the JSON text of a body object in one of two
\* formattings, identified by a number
rawBody(et, md, shape, fmt) ==
    (((et - 1) * Len(metadataSamples) + (md - 1)) * Len(bodyShapes) + (shape - 1))
        * Len(bodyFormats) + (fmt - 1)

RawBodies ==
    {rawBody(et, md, shape, fmt) :
        et \in 1..Len(eventTypes), md \in 1..Len(metadataSamples),
        shape \in 1..Len(bodyShapes), fmt \in 1..Len(bodyFormats)}

\* the object each raw body denotes
parsedBodies ==
    [raw \in RawBodies |->
        LET q == raw \div Len(bodyFormats)
            shape == (q % Len(bodyShapes)) + 1
            q2 == q \div Len(bodyShapes)
            md == (q2 % Len(metadataSamples)) + 1
            et == (q2 \div Len(metadataSamples)) + 1
        IN  bodyObject(et, md, shape)]

\* express.json(): req.body
JSONparse(raw) == parsedBodies[raw]

\* JSON.stringify(value): the text of the object in the compact formatting
JSONstringify(value) ==
    LET et == CHOOSE i \in 1..Len(eventTypes) : eventTypes[i] = Get(value, "event_type")
        md == CHOOSE i \in 1..Len(metadataSamples) :
                metadataSamples[i] = Get(Get(Get(value, "data"), "payload"), "metadata")
        shape == IF "assetPath" \in Keys(value) THEN 2 ELSE 1
    IN  rawBody(et, md, shape, 1)

\* req.headers['x-adobe-signature']: Undef or a string of character codes
Header(chars) == [t |-> "hdr", c |-> chars]

headerPresent(h) == h.t = "hdr" /\ h.c # <<>>

SenderKey == "s3cr3t"

UpperHex(chars) == [i \in 1..Len(chars) |-> IF chars[i] \in 97..102 THEN chars[i] - 32 ELSE chars[i]]

\* 'invalid-signature'
InvalidSignatureText ==
    <<105, 110, 118, 97, 108, 105, 100, 45, 115, 105, 103, 110, 97, 116, 117, 114, 101>>

signatureKinds == {"absent", "valid", "upper", "wrongkey", "malformed"}

signatureHeader(kind, raw) ==
    CASE kind = "absent" -> Undef
      [] kind = "valid" -> Header(HexEncode(HmacSha256(raw, SenderKey)))
      [] kind = "upper" -> Header(UpperHex(HexEncode(HmacSha256(raw, SenderKey))))
      [] kind = "wrongkey" -> Header(HexEncode(HmacSha256(raw, "0ther")))
      [] kind = "malformed" -> Header(InvalidSignatureText)

\* every body with every kind of header; the pretty formatting is sent signed
Inputs ==
    {[raw |-> raw, signature |-> signatureHeader(kind, raw)] :
        raw \in RawBodies, kind \in signatureKinds}
    \ {[raw |-> raw, signature |-> signatureHeader(kind, raw)] :
        raw \in {b \in RawBodies : b % Len(bodyFormats) # 0},
        kind \in signatureKinds \ {"valid"}}

(***************************************************************************)
(* HTTP responses of the webhook endpoint                                  *)
(***************************************************************************)
NoResponse == [code |-> 0]

invalidSignatureResponse ==
    [code |-> 401, body |-> Obj([error |-> Str("Invalid signature")])]

ignoredResponse ==
    [code |-> 200,
     body |-> Obj([status |-> Str("ignored"),
                   reason |-> Str("Event type not supported for MLE synchronization")])]

processedResponse(result) ==
    [code |-> 200,
     body |-> Obj([status |-> Str("processed"), timestamp |-> Num(now), result |-> result])]

\* a 500 response without its timestamp
internalErrorResponse_NoTimestamp ==
    [code |-> 500, body |-> Obj([error |-> Str("Internal server error")])]

internalErrorResponse ==
    [code |-> 500,
     body |-> Obj([error |-> Str("Internal server error"), timestamp |-> Num(now)])]

(***************************************************************************)
(* Request records                                                         *)
(***************************************************************************)
NoEvent == [assetPath |-> Undef, metadata |-> Undef, eventType |-> Undef]

IdleReq ==
    [pc |-> "idle", raw |-> 0, signature |-> Undef,
     verified |-> "none",       \* outcome of the signature check
     filtered |-> FALSE,        \* shouldProcessEvent was evaluated
     entered |-> FALSE,         \* processAssetEvent was entered
     ev |-> NoEvent,            \* its destructured eventData
     gate |-> "none",           \* outcome of isAssetApproved
     transformed |-> FALSE,     \* transformForMLE was called
     op |-> "none",             \* selected MLEClient operation
     assetId |-> Undef,         \* mleData.assetId
     tokenCalls |-> 0,          \* getAccessToken calls made
     oauth |-> 0,               \* OAuth token requests issued
     token |-> Undef,           \* token returned by getAccessToken
     calls |-> <<>>,            \* target API requests issued
     apiStatus |-> -1,          \* status the target API answered, 0: no answer
     result |-> Null,           \* result of processAssetEvent
     res |-> NoResponse]

respond(rq, response) == [rq EXCEPT !.pc = "done", !.res = response]

(***************************************************************************)
(* TokenManager                                                            *)
(***************************************************************************)
Tokens == {"tokA", "tokB"}
ExpiresIn == {60, 120}

\* cache test that ignores the expiry
tokenCached_IgnoresExpiry == Truthy(accessToken)

\* the test at the head of getAccessToken
tokenCached ==
    Truthy(accessToken) /\ Truthy(tokenExpiry) /\ now < tokenExpiry.n

\* an expiry without the safety buffer of one minute
grantExpiry_NoBuffer(expires_in) == now + (expires_in * 1000)

\* tokenExpiry after a grant received at the current time
grantExpiry(expires_in) == now + (expires_in * 1000) - 60000

(***************************************************************************)
(* EventProcessor.processAssetEvent and the MLEClient operations, up to    *)
(* the first await and after each await                                    *)
(***************************************************************************)
\* the MLEClient operation has a token and issues its HTTP request
issueApiRequest(rq, token) ==
    [rq EXCEPT !.pc = "awaitApi",
               !.token = token,
               !.calls = Append(@, operationRequest(rq.op, rq.assetId))]

\* the MLEClient operation starts: const token = await tokenManager.getAccessToken()
startOperation(rq) ==
    LET called == [rq EXCEPT !.tokenCalls = @ + 1]
    IN  IF tokenCached THEN issueApiRequest(called, accessToken)
        ELSE [called EXCEPT !.pc = "awaitToken", !.oauth = @ + 1]

\* a processor that issues the request again after a retryable failure
finishOperation_Retries(rq, mleResult) ==
    LET success == Get(mleResult, "success").b
        error == Obj([system |-> Str("MLE"),
                      error |-> Get(mleResult, "error"),
                      retryable |-> Get(mleResult, "retryable")])
        result == Obj([mle |-> mleResult,
                       status |-> Str(IF success THEN "completed" ELSE "failed"),
                       errors |-> Arr(IF success THEN <<>> ELSE <<error>>),
                       assetId |-> Get(rq.result, "assetId")])
    IN  IF ~success /\ Get(mleResult, "retryable") = Bool(TRUE) /\ Len(rq.calls) = 1
        THEN issueApiRequest(rq, rq.token)
        ELSE respond([rq EXCEPT !.result = result], processedResponse(result))

\* lines 461-470 and 495, then lines 567-571 of the handler
finishOperation(rq, mleResult) ==
    LET success == Get(mleResult, "success").b
        error == Obj([system |-> Str("MLE"),
                      error |-> Get(mleResult, "error"),
                      retryable |-> Get(mleResult, "retryable")])
        result == Obj([mle |-> mleResult,
                       status |-> Str(IF success THEN "completed" ELSE "failed"),
                       errors |-> Arr(IF success THEN <<>> ELSE <<error>>),
                       assetId |-> Get(rq.result, "assetId")])
    IN  respond([rq EXCEPT !.result = result], processedResponse(result))

\* an operation without its catch block: the error reaches processAssetEvent
operationCatch_Rethrows(rq, error) ==
    LET entry == Obj([system |-> Str("MLE"), error |-> Str("Error"),
                      retryable |-> Bool(TRUE)])
        result == Obj([mle |-> Null, status |-> Str("error"),
                       errors |-> Arr(<<entry>>),
                       assetId |-> Get(rq.result, "assetId")])
    IN  respond([rq EXCEPT !.result = result], processedResponse(result))

\* an error raised inside an MLEClient operation is caught by the operation,
\* which returns its failure value to processAssetEvent
operationCatch(rq, error) == finishOperation(rq, operationFailed(rq.op, error))

\* a catch block that sets the status and records no error entry
caughtInProcessor_NoEntry(rq) ==
    LET result == Obj([mle |-> Null, status |-> Str("error"),
                       errors |-> Arr(<<>>),
                       assetId |-> Get(rq.result, "assetId")])
    IN  respond([rq EXCEPT !.result = result], processedResponse(result))

\* processAssetEvent without its catch block: the error reaches the handler
caughtInProcessor_Rethrows(rq) == respond(rq, internalErrorResponse)

\* the catch block of processAssetEvent, lines 472-480
caughtInProcessor(rq) ==
    LET error == Obj([system |-> Str("MLE"), error |-> Str("TypeError"),
                      retryable |-> Bool(TRUE)])
        result == Obj([mle |-> Null, status |-> Str("error"),
                       errors |-> Arr(<<error>>),
                       assetId |-> Get(rq.result, "assetId")])
    IN  respond([rq EXCEPT !.result = result], processedResponse(result))

skippedResult ==
    Obj([status |-> Str("skipped"), reason |-> Str("Asset not approved for publication")])

processAssetEvent(rq0, eventData) ==
    LET ev == destructure(eventData)
        approved == isAssetApproved(ev.metadata)
        rq == [rq0 EXCEPT !.entered = TRUE, !.ev = ev, !.gate = approved]
    IN  IF approved = "throw" THEN respond(rq, internalErrorResponse)
        ELSE IF approved = "false"
             THEN respond([rq EXCEPT !.result = skippedResult], processedResponse(skippedResult))
        ELSE LET uuid == Get(ev.metadata, "jcr:uuid")
             IN  IF ~Truthy(uuid) /\ ~IsStr(ev.assetPath) THEN respond(rq, internalErrorResponse)
                 ELSE LET result == Obj([mle |-> Null, status |-> Str("processing"),
                                         errors |-> Arr(<<>>),
                                         assetId |-> Or(uuid, Str(extractAssetIdFromPath(ev.assetPath.s)))])
                          mleData == transformForMLE(ev.metadata, ev.assetPath, ev.eventType)
                          rq1 == [rq EXCEPT !.result = result, !.transformed = TRUE]
                      IN  IF mleData = Throw \/ ~IsStr(ev.eventType) THEN caughtInProcessor(rq1)
                          ELSE startOperation([rq1 EXCEPT
                                    !.op = selectOperation(ev.eventType.s),
                                    !.assetId = mleData.assetId])

(***************************************************************************)
(* app.post('/webhook/aem-events')                                         *)
(***************************************************************************)
\* a check that verifies even when no secret is configured
checkSignature_AlwaysVerifies(body, signature) ==
    IF ~headerPresent(signature) THEN "reject"
    ELSE LET verified == verifyWebhookSignature(JSONstringify(body), signature.c, secret)
         IN  IF verified = "throw" THEN "throw"
             ELSE IF verified = "true" THEN "pass" ELSE "reject"

\* lines 547-553: "pass", "reject" (401) or "throw"
checkSignature(body, signature) ==
    IF secret = "" THEN "pass"
    ELSE IF ~headerPresent(signature) THEN "reject"
    ELSE LET verified == verifyWebhookSignature(JSONstringify(body), signature.c, secret)
         IN  IF verified = "throw" THEN "throw"
             ELSE IF verified = "true" THEN "pass" ELSE "reject"

handleWebhook(rq0) ==
    LET eventData == JSONparse(rq0.raw)
        verified == checkSignature(eventData, rq0.signature)
        rq == [rq0 EXCEPT !.verified = verified]
        event_type == Get(eventData, "event_type")
    IN  IF verified = "reject" THEN respond(rq, invalidSignatureResponse)
        ELSE IF verified = "throw" THEN respond(rq, internalErrorResponse)
        ELSE IF ~Truthy(event_type) THEN respond(rq, ignoredResponse)
        ELSE IF ~shouldProcessEvent(event_type.s)
             THEN respond([rq EXCEPT !.filtered = TRUE], ignoredResponse)
        ELSE processAssetEvent([rq EXCEPT !.filtered = TRUE], eventData)

(***************************************************************************)
(* Actions                                                                 *)
(***************************************************************************)
Reqs == 1..MaxReqs

\* a POST arrives and its handler runs to its first await or to its response
WebhookPost(r, input) ==
    /\ req[r].pc = "idle"
    /\ req' = [req EXCEPT ![r] =
            handleWebhook([IdleReq EXCEPT !.raw = input.raw, !.signature = input.signature])]
    /\ UNCHANGED <<secret, now, accessToken, tokenExpiry, sigTrial, fnTrial, act>>

\* a grant whose two cache writes are separate steps: the token is stored,
\* the expiry of the earlier response is still in place
TokenGranted_TokenOnly(r, access_token, expires_in) ==
    /\ req[r].pc = "awaitToken"
    /\ accessToken' = Str(access_token)
    /\ req' = [req EXCEPT ![r] = issueApiRequest(req[r], Str(access_token))]
    /\ UNCHANGED <<secret, now, tokenExpiry, sigTrial, fnTrial, act>>

\* the token endpoint grants a token: lines 67-71, then the operation resumes
TokenGranted(r, access_token, expires_in) ==
    /\ req[r].pc = "awaitToken"
    /\ accessToken' = Str(access_token)
    /\ tokenExpiry' = Num(grantExpiry(expires_in))
    /\ req' = [req EXCEPT ![r] = issueApiRequest(req[r], Str(access_token))]
    /\ UNCHANGED <<secret, now, sigTrial, fnTrial, act>>

\* a failed token request that also drops the cached token
TokenFailed_ClearsCache(r) ==
    /\ req[r].pc = "awaitToken"
    /\ accessToken' = Null
    /\ tokenExpiry' = Null
    /\ req' = [req EXCEPT ![r] = operationCatch(req[r], AuthenticationFailed)]
    /\ UNCHANGED <<secret, now, sigTrial, fnTrial, act>>

\* the token request fails: lines 72-75 throw, the operation's catch returns
TokenFailed(r) ==
    /\ req[r].pc = "awaitToken"
    /\ req' = [req EXCEPT ![r] = operationCatch(req[r], AuthenticationFailed)]
    /\ UNCHANGED <<secret, now, accessToken, tokenExpiry, sigTrial, fnTrial, act>>

ApiOutcomes == {0, 200, 400, 404, 429, 500, 503}

\* a failed request whose error leaves the operation as an exception
ApiResponse_Rethrows(r, status) ==
    /\ req[r].pc = "awaitApi"
    /\ LET rq == [req[r] EXCEPT !.apiStatus = status]
       IN  req' = [req EXCEPT ![r] =
                IF status \in 200..299
                THEN finishOperation(rq, operationSucceeded(rq.op, status))
                ELSE caughtInProcessor(rq)]
    /\ UNCHANGED <<secret, now, accessToken, tokenExpiry, sigTrial, fnTrial, act>>

\* the target API answers with a status, or not at all (status 0)
ApiResponse(r, status) ==
    /\ req[r].pc = "awaitApi"
    /\ LET rq == [req[r] EXCEPT !.apiStatus = status]
           error == IF status = 0 THEN NetworkError ELSE HttpError(status)
       IN  req' = [req EXCEPT ![r] =
                IF status \in 200..299
                THEN finishOperation(rq, operationSucceeded(rq.op, status))
                ELSE operationCatch(rq, error)]
    /\ UNCHANGED <<secret, now, accessToken, tokenExpiry, sigTrial, fnTrial, act>>

Tick ==
    /\ now + TickMs <= MaxNow
    /\ now' = now + TickMs
    /\ UNCHANGED <<secret, accessToken, tokenExpiry, req, sigTrial, fnTrial, act>>

\* the response has been sent; the slot serves the next request
Close(r) ==
    /\ req[r].pc = "done"
    /\ req' = [req EXCEPT ![r] = IdleReq]
    /\ UNCHANGED <<secret, now, accessToken, tokenExpiry, sigTrial, fnTrial, act>>

NoTrial == [kind |-> "none"]

\* the serverless action is not running
NoActivation == [pc |-> "idle"]

Init ==
    /\ secret \in {"", SenderKey}
    /\ now = 0
    /\ accessToken = Null
    /\ tokenExpiry = Null
    /\ req = [r \in Reqs |-> IdleReq]
    /\ act = NoActivation
    /\ sigTrial = NoTrial
    /\ fnTrial = NoTrial

\* requests arrive one at a time, each taking the first slot
Quiet(r) == r = 1 /\ \A q \in Reqs : req[q].pc = "idle"

Next ==
    \/ \E r \in Reqs, input \in Inputs : Quiet(r) /\ WebhookPost(r, input)
    \/ \E r \in Reqs, expires_in \in ExpiresIn : TokenGranted(r, "tokA", expires_in)
    \/ \E r \in Reqs : TokenFailed(r)
    \/ \E r \in Reqs, status \in ApiOutcomes : ApiResponse(r, status)
    \/ Tick
    \/ \E r \in Reqs : Close(r)

Spec == Init /\ [][Next]_vars

(***************************************************************************)
(* Specification of the signature verifier alone                           *)
(***************************************************************************)
Payloads == 0..(2 ^ PayloadBits - 1)

FlipBit(n, k) == IF (n \div (2 ^ k)) % 2 = 1 THEN n - 2 ^ k ELSE n + 2 ^ k

FlipCharBit(chars, i, k) == [chars EXCEPT ![i] = FlipBit(chars[i], k)]

SigInput(payload, key) ==
    [kind |-> "input", payload |-> payload, key |-> key,
     signature |-> HexEncode(HmacSha256(payload, key)), verified |-> "none"]

\* the sender signs the body with the shared secret and the service verifies it
SigVerifyValid ==
    /\ sigTrial.kind = "input"
    /\ sigTrial' = [sigTrial EXCEPT
            !.kind = "valid",
            !.verified = verifyWebhookSignature(sigTrial.payload, sigTrial.signature, sigTrial.key)]

\* bit k of character i of the signature header is flipped in transit
SigVerifyMutatedSignature(i, k) ==
    /\ sigTrial.kind = "input"
    /\ LET mutated == FlipCharBit(sigTrial.signature, i, k)
       IN  sigTrial' = [kind |-> "sigMutated", payload |-> sigTrial.payload,
                        key |-> sigTrial.key, signature |-> mutated,
                        verified |-> verifyWebhookSignature(sigTrial.payload, mutated, sigTrial.key)]

\* bit k of the body is flipped in transit
SigVerifyMutatedBody(k) ==
    /\ sigTrial.kind = "input"
    /\ LET mutated == FlipBit(sigTrial.payload, k)
       IN  sigTrial' = [kind |-> "bodyMutated", payload |-> mutated,
                        key |-> sigTrial.key, signature |-> sigTrial.signature,
                        verified |-> verifyWebhookSignature(mutated, sigTrial.signature, sigTrial.key)]

InitSig ==
    /\ secret \in Secrets
    /\ now = 0
    /\ accessToken = Null
    /\ tokenExpiry = Null
    /\ req = [r \in Reqs |-> IdleReq]
    /\ act = NoActivation
    /\ \E p \in Payloads : sigTrial = SigInput(p, secret)
    /\ fnTrial = NoTrial

NextSig ==
    /\ UNCHANGED <<secret, now, accessToken, tokenExpiry, req, fnTrial, act>>
    /\ \/ SigVerifyValid
       \/ \E i \in 1..4, k \in 0..7 : SigVerifyMutatedSignature(i, k)
       \/ \E k \in 0..(PayloadBits - 1) : SigVerifyMutatedBody(k)

SpecSig == InitSig /\ [][NextSig]_vars

(***************************************************************************)
(* Specification with overlapping requests: approved events arrive while   *)
(* earlier ones are still awaiting the token endpoint or the target API    *)
(***************************************************************************)
\* an approved 'assets.updated' event in the flat shape, validly signed
ConcInputs ==
    {[raw |-> rawBody(2, 2, 2, 1), signature |-> signatureHeader("valid", rawBody(2, 2, 2, 1))]}

ConcApiOutcomes == {200, 500}

NextConc ==
    \/ \E r \in Reqs, input \in ConcInputs : WebhookPost(r, input)
    \/ \E r \in Reqs, access_token \in Tokens, expires_in \in ExpiresIn :
            TokenGranted(r, access_token, expires_in)
    \/ \E r \in Reqs : TokenFailed(r)
    \/ \E r \in Reqs, status \in ConcApiOutcomes : ApiResponse(r, status)
    \/ Tick
    \/ \E r \in Reqs : Close(r)

InitConc ==
    /\ secret = SenderKey
    /\ now = 0
    /\ accessToken = Null
    /\ tokenExpiry = Null
    /\ req = [r \in Reqs |-> IdleReq]
    /\ act = NoActivation
    /\ sigTrial = NoTrial
    /\ fnTrial = NoTrial

SpecConc == InitConc /\ [][NextConc]_vars

(***************************************************************************)
(* Properties                                                              *)
(***************************************************************************)
Done(r) == req[r].pc = "done"

\* value.key, Undef when the value is not an object
Prop(value, key) == IF IsObj(value) THEN Get(value, key) ELSE Undef

\* the fields of the documented body shape
bodyEventType(r) == Prop(JSONparse(req[r].raw), "event_type")
bodyPayload(r) == Prop(Prop(JSONparse(req[r].raw), "data"), "payload")
bodyPath(r) == Prop(bodyPayload(r), "path")
bodyMetadata(r) == Prop(bodyPayload(r), "metadata")

\* the request carries the documented shape only, nothing at the top level
DocumentedShape(r) == "eventType" \notin Keys(JSONparse(req[r].raw))

resultStatus(r) == Prop(req[r].result, "status")

\* the header is the hex HMAC-SHA256 of the raw body under the shared secret
ValidlySigned(r) == req[r].signature = Header(HexEncode(HmacSha256(req[r].raw, SenderKey)))

\* the signature check let the request through
Admitted(r) == req[r].verified = "pass"

\* C1: for a body of the documented shape and a processable event type, the
\* EventProcessor operates on eventType = body.event_type, assetPath =
\* body.data.payload.path and metadata = body.data.payload.metadata
C1_OperatesOnPayload ==
    \A r \in Reqs :
        req[r].entered =>
            /\ req[r].ev.eventType = bodyEventType(r)
            /\ req[r].ev.assetPath = bodyPath(r)
            /\ req[r].ev.metadata = bodyMetadata(r)

\* the event of scenario A, in the documented shape and validly signed
ScenarioA(r) ==
    /\ bodyEventType(r) = Str("com.adobe.aem.assets.updated")
    /\ bodyMetadata(r) = metadataSamples[2]
    /\ DocumentedShape(r)
    /\ ValidlySigned(r)

\* C2: a validly signed 'com.adobe.aem.assets.updated' event with dam:status
\* 'approved' and jcr:uuid 'u1' selects the update operation, issues a PUT to
\* {MLE_API_URL}/v1/assets/u1 and ends 'completed' when the API answers 200
C2_ScenarioA ==
    \A r \in Reqs :
        (Done(r) /\ ScenarioA(r)) =>
            /\ req[r].op = "update"
            /\ req[r].oauth = 0 =>
                req[r].calls = <<[method |-> "PUT", url |-> MleApiUrl \o "/v1/assets/u1"]>>
            /\ req[r].apiStatus = 200 => resultStatus(r) = Str("completed")

\* C3: callers that invoke getAccessToken concurrently while no valid token
\* is cached share one OAuth token request: at most one is in flight
C3_SingleTokenRequest ==
    Cardinality({r \in Reqs : req[r].pc = "awaitToken"}) <= 1

\* C4: after a successful grant, a getAccessToken call made while
\* now < expiresAt issues no OAuth request and returns the cached token, and
\* a call made at or after expiresAt issues exactly one OAuth request
C4_CacheHonoured ==
    [][\A r \in Reqs :
        (req'[r].tokenCalls = req[r].tokenCalls + 1 /\ Truthy(accessToken)) =>
            IF now < tokenExpiry.n
            THEN req'[r].oauth = req[r].oauth /\ req'[r].token = accessToken
            ELSE req'[r].oauth = req[r].oauth + 1]_vars

\* a request was served the cached token without an OAuth request
C4_Witness ==
    \E r \in Reqs :
        /\ req[r].pc = "awaitApi"
        /\ req[r].tokenCalls = 1
        /\ req[r].oauth = 0
        /\ req[r].token = accessToken
        /\ now < tokenExpiry.n

\* the processable event types
ProcessableTypes ==
    {Str(processableEvents[i]) : i \in 1..Len(processableEvents)}

\* C5: an event is processed only if its type is one of the processable
\* types; every other type ends as 'ignored' with HTTP 200 and with no
\* approval check, transform or outbound call
C5_OnlyProcessableTypes ==
    \A r \in Reqs :
        (Done(r) /\ Admitted(r) /\ bodyEventType(r) \notin ProcessableTypes) =>
            /\ req[r].res = ignoredResponse
            /\ ~req[r].entered
            /\ ~req[r].transformed
            /\ req[r].oauth = 0
            /\ req[r].calls = <<>>

\* some approval field of the metadata is 'approved' or 'published' in any case
CarriesApproval(metadata) ==
    \E i \in 1..Len(gateApprovalFields) :
        LET value == Get(metadata, gateApprovalFields[i])
        IN  IsStr(value) /\ ToLowerCase(value.s) \in {"approved", "published"}

\* C6: an event of a processable type whose metadata carries no approval
\* indicator ends with result status 'skipped', and neither an OAuth token
\* request nor a target API call is issued for it
C6_UnapprovedSkipped ==
    \A r \in Reqs :
        (Done(r) /\ Admitted(r) /\ bodyEventType(r) \in ProcessableTypes
            /\ ~CarriesApproval(bodyMetadata(r))) =>
            /\ resultStatus(r) = Str("skipped")
            /\ req[r].oauth = 0
            /\ req[r].calls = <<>>

IsHex(c) == c \in 48..57 \/ c \in 97..102 \/ c \in 65..70
IsLowerHex(c) == c \in 48..57 \/ c \in 97..102

\* the header is absent, malformed (wrong length or not hex) or a well-formed
\* lower-case digest other than the one of the body
BadSignature(r) ==
    LET expected == HexEncode(HmacSha256(req[r].raw, secret))
        header == req[r].signature
    IN  \/ header = Undef
        \/ /\ header # Undef
           /\ \/ Len(header.c) # Len(expected)
              \/ \E i \in 1..Len(header.c) : ~IsHex(header.c[i])
              \/ /\ \A i \in 1..Len(header.c) : IsLowerHex(header.c[i])
                 /\ header.c # expected

\* C7: with a webhook secret configured, a request whose signature header is
\* absent, malformed or mismatched is answered 401 {error:'Invalid signature'}
\* and is not filtered, transformed or dispatched
C7_BadSignatureRejected ==
    \A r \in Reqs :
        (Done(r) /\ secret # "" /\ BadSignature(r)) =>
            /\ req[r].res = invalidSignatureResponse
            /\ ~req[r].filtered
            /\ ~req[r].entered
            /\ req[r].calls = <<>>

\* C8: verifyWebhookSignature returns true when the signature is the hex
\* HMAC-SHA256 of the body, and false for every signature or body that
\* differs from a valid pair in a single bit
C8_SingleBitMutationRejected ==
    /\ sigTrial.kind = "valid" => sigTrial.verified = "true"
    /\ sigTrial.kind \in {"sigMutated", "bodyMutated"} => sigTrial.verified = "false"

mleResult(r) == Prop(req[r].result, "mle")

\* the operation of the request returned success:false
OperationFailed(r) ==
    /\ Done(r)
    /\ req[r].op # "none"
    /\ IsObj(mleResult(r))
    /\ Get(mleResult(r), "success") = Bool(FALSE)

\* the classification of section 4.4: no response at all (a request that was
\* never answered or never sent), status >= 500 or status 429
Classified(r) ==
    Bool(req[r].apiStatus <= 0 \/ req[r].apiStatus >= 500 \/ req[r].apiStatus = 429)

\* C9: sendAssetMetadata and updateAssetMetadata return retryable:true exactly
\* when the failure has no response or the status is >= 500 or 429, and
\* retryable:false for every other status
C9_RetryableClassification ==
    \A r \in Reqs :
        (OperationFailed(r) /\ req[r].op \in {"create", "update"}) =>
            Get(mleResult(r), "retryable") = Classified(r)

\* a rate-limited update was classified retryable
C9_Witness ==
    \E r \in Reqs :
        /\ OperationFailed(r)
        /\ req[r].op = "update"
        /\ req[r].apiStatus = 429
        /\ Get(mleResult(r), "retryable") = Bool(TRUE)

\* C10: the remove operation returns on every failure a result whose
\* retryable flag is defined and follows the same classification
C10_RemoveRetryable ==
    \A r \in Reqs :
        (OperationFailed(r) /\ req[r].op = "remove") =>
            /\ "retryable" \in Keys(mleResult(r))
            /\ Get(mleResult(r), "retryable") = Classified(r)

errorsOf(r) == Prop(req[r].result, "errors")

\* the errors list holds exactly one entry, of system 'MLE', with this flag
SingleError(r, retryable) ==
    /\ errorsOf(r).t = "arr"
    /\ Len(errorsOf(r).a) = 1
    /\ Get(errorsOf(r).a[1], "system") = Str("MLE")
    /\ Get(errorsOf(r).a[1], "retryable") = retryable

\* C11: when the target API answers 500 to the dispatched operation, the
\* SyncResult has retryable:true, the final status is 'failed' and the errors
\* list holds exactly one entry carrying the system identity and retryable:true
C11_ServerErrorFailed ==
    \A r \in Reqs :
        (Done(r) /\ req[r].apiStatus = 500) =>
            /\ Prop(mleResult(r), "retryable") = Bool(TRUE)
            /\ resultStatus(r) = Str("failed")
            /\ SingleError(r, Bool(TRUE))

(***************************************************************************)
(* Specification of the dispatch selection alone                           *)
(***************************************************************************)
dispatchWords ==
    {"created", "published", "updated", "modified", "deleted", "removed",
     "completed", "workflow", "assets", "viewed"}

\* event types of two segments after the common prefix
DispatchEventTypes ==
    {"com.adobe.aem." \o a \o "." \o b : a \in dispatchWords, b \in dispatchWords}

SelectOperationTrial ==
    /\ fnTrial.kind = "eventType"
    /\ fnTrial' = [kind |-> "dispatched", eventType |-> fnTrial.eventType,
                   op |-> selectOperation(fnTrial.eventType)]
    /\ UNCHANGED <<secret, now, accessToken, tokenExpiry, req, sigTrial, act>>

InitDispatch ==
    /\ secret = ""
    /\ now = 0
    /\ accessToken = Null
    /\ tokenExpiry = Null
    /\ req = [r \in Reqs |-> IdleReq]
    /\ act = NoActivation
    /\ sigTrial = NoTrial
    /\ \E eventType \in DispatchEventTypes :
            fnTrial = [kind |-> "eventType", eventType |-> eventType, op |-> "none"]

NextDispatch == SelectOperationTrial

SpecDispatch == InitDispatch /\ [][NextDispatch]_vars

Mentions(eventType, words) == \E w \in words : Includes(eventType, w)

\* C12: the operation is chosen first-match-wins: 'created' or 'published'
\* -> create; else 'updated' or 'modified' -> update; else 'deleted' or
\* 'removed' -> remove; else create
C12_DispatchOrder ==
    fnTrial.kind = "dispatched" =>
        LET e == fnTrial.eventType
            creates == Mentions(e, {"created", "published"})
            updates == Mentions(e, {"updated", "modified"})
            removes == Mentions(e, {"deleted", "removed"})
        IN  /\ creates => fnTrial.op = "create"
            /\ (~creates /\ updates) => fnTrial.op = "update"
            /\ (~creates /\ ~updates /\ removes) => fnTrial.op = "remove"
            /\ (~creates /\ ~updates /\ ~removes) => fnTrial.op = "create"

\* an event type naming both a removal and a creation is dispatched as create
C12_Witness ==
    /\ fnTrial.kind = "dispatched"
    /\ fnTrial.eventType = "com.adobe.aem.removed.created"
    /\ fnTrial.op = "create"

\* the request asked the token endpoint for a token and obtained none
TokenRequestFailed(r) ==
    /\ Done(r)
    /\ req[r].oauth > 0
    /\ req[r].token = Undef

\* C13 as stated: when the token request made for an approved processable
\* event fails, the event's final status is 'error', and no further token or
\* target API request is made for that event
C13_TokenFailureIsError ==
    \A r \in Reqs :
        TokenRequestFailed(r) =>
            /\ resultStatus(r) = Str("error")
            /\ req[r].oauth = 1
            /\ req[r].calls = <<>>

\* C13: when the token request made for an approved processable event fails,
\* the event's final status is 'failed' (not 'error'), and no further token or
\* target API request is made for that event
C13_TokenFailureIsFailed ==
    \A r \in Reqs :
        TokenRequestFailed(r) =>
            /\ resultStatus(r) = Str("failed")
            /\ req[r].oauth = 1
            /\ req[r].calls = <<>>

C13_Witness ==
    \E r \in Reqs :
        /\ TokenRequestFailed(r)
        /\ req[r].op = "create"
        /\ resultStatus(r) = Str("failed")

\* an exception is raised inside the try block of processAssetEvent
ThrownInTry(r) ==
    /\ req[r].transformed
    /\ \/ transformForMLE(req[r].ev.metadata, req[r].ev.assetPath, req[r].ev.eventType) = Throw
       \/ ~IsStr(req[r].ev.eventType)

\* C14: an exception thrown while transforming the metadata or dispatching
\* the operation is caught inside the EventProcessor: the final status is
\* 'error', the errors list holds one entry with retryable:true, and the
\* webhook answers 200 'processed' with that result
C14_ExceptionCaught ==
    \A r \in Reqs :
        (Done(r) /\ ThrownInTry(r)) =>
            /\ resultStatus(r) = Str("error")
            /\ SingleError(r, Bool(TRUE))
            /\ req[r].res.code = 200
            /\ Get(req[r].res.body, "status") = Str("processed")
            /\ Get(req[r].res.body, "result") = req[r].result

C14_Witness ==
    \E r \in Reqs :
        /\ Done(r)
        /\ ThrownInTry(r)
        /\ Get(req[r].ev.metadata, "dc:format") = Num(7)
        /\ resultStatus(r) = Str("error")

\* C15: no MLEClient operation throws: whenever an operation was started its
\* caller receives a value with a boolean success, which is false after a
\* transport failure, a non-2xx response or a token failure
C15_OperationsReturnValues ==
    \A r \in Reqs :
        (Done(r) /\ req[r].op # "none") =>
            /\ IsObj(mleResult(r))
            /\ Get(mleResult(r), "success") \in {Bool(TRUE), Bool(FALSE)}
            /\ resultStatus(r) \in {Str("completed"), Str("failed")}
            /\ req[r].res.code = 200
            /\ (req[r].apiStatus \notin 200..299) => Get(mleResult(r), "success") = Bool(FALSE)

\* a token failure has been returned as a value by the remove operation
C15_Witness ==
    \E r \in Reqs :
        /\ OperationFailed(r)
        /\ TokenRequestFailed(r)
        /\ req[r].op = "remove"

\* the response has one of the three documented forms
ResponseForm(r) ==
    LET res == req[r].res
    IN  \/ /\ res.code = 200
           /\ Get(res.body, "status") \in {Str("ignored"), Str("processed")}
        \/ /\ res.code = 401
           /\ res.body = Obj([error |-> Str("Invalid signature")])
        \/ /\ res.code = 500
           /\ Keys(res.body) = {"error", "timestamp"}

\* metadata['jcr:uuid'] || extractAssetIdFromPath(assetPath) raised
AssetIdThrown(r) ==
    /\ req[r].gate = "true"
    /\ ~Truthy(Get(req[r].ev.metadata, "jcr:uuid"))
    /\ ~IsStr(req[r].ev.assetPath)

\* an exception was raised outside the try block of processAssetEvent
RaisedOutsideTry(r) ==
    \/ req[r].verified = "throw"
    \/ req[r].gate = "throw"
    \/ AssetIdThrown(r)

\* an exception was raised at some point of the handling
RaisedAnywhere(r) == RaisedOutsideTry(r) \/ ThrownInTry(r)

LiveInputs ==
    {[raw |-> rawBody(et, 2, 2, 1), signature |-> signatureHeader("valid", rawBody(et, 2, 2, 1))] :
        et \in {1, 2, 3}}

\* timeout: 30000 of the axios call expires: the call fails without response
ApiTimeout(r) ==
    /\ req[r].pc = "awaitApi"
    /\ req' = [req EXCEPT ![r] =
            operationCatch([req[r] EXCEPT !.apiStatus = 0], NetworkError)]
    /\ UNCHANGED <<secret, now, accessToken, tokenExpiry, sigTrial, fnTrial, act>>

NextLive ==
    \/ \E r \in Reqs, input \in LiveInputs : Quiet(r) /\ WebhookPost(r, input)
    \/ \E r \in Reqs, expires_in \in ExpiresIn : TokenGranted(r, "tokA", expires_in)
    \/ \E r \in Reqs : TokenFailed(r)
    \/ \E r \in Reqs, status \in ConcApiOutcomes : ApiResponse(r, status)
    \/ \E r \in Reqs : ApiTimeout(r)
    \/ Tick
    \/ \E r \in Reqs : Close(r)

SpecLive ==
    /\ InitConc
    /\ [][NextLive]_vars
    /\ \A r \in Reqs : WF_vars(ApiTimeout(r))

\* C17: the processing of every event eventually reaches a terminal outcome,
\* even when the token endpoint or the target API never answers
C17_EventuallyTerminal ==
    \A r \in Reqs : (req[r].pc \in {"awaitToken", "awaitApi"}) ~> Done(r)

\* C18: a failed token request leaves accessToken and tokenExpiry exactly as
\* they were, no token is returned and no target API request is issued; a
\* later getAccessToken call issues a new token request unless a still-valid
\* token is cached
C18_FailureKeepsCache ==
    [][\A r \in Reqs :
        /\ (req[r].pc = "awaitToken" /\ req'[r].pc = "done") =>
                /\ accessToken' = accessToken
                /\ tokenExpiry' = tokenExpiry
                /\ req'[r].token = Undef
                /\ req'[r].calls = <<>>
                /\ Get(Prop(req'[r].result, "mle"), "success") = Bool(FALSE)
        /\ (req[r].pc = "idle" /\ req'[r].tokenCalls = 1) =>
                (req'[r].oauth = 1 <=> ~tokenCached)
      ]_vars

\* a token request has failed while a token granted to another request is cached
C18_Witness ==
    \E r \in Reqs :
        /\ TokenRequestFailed(r)
        /\ Truthy(accessToken)

\* C19: when no secret is configured the signature is not verified: no
\* request is answered 401, whatever its x-adobe-signature header, and the
\* handler goes on to the event-type filter
C19_NoSecretNoVerification ==
    \A r \in Reqs :
        (Done(r) /\ secret = "") =>
            /\ Admitted(r)
            /\ req[r].res.code # 401
            /\ Truthy(bodyEventType(r)) => req[r].filtered

\* a request with the header 'invalid-signature' has reached the filter
C19_Witness ==
    \E r \in Reqs :
        /\ Done(r)
        /\ secret = ""
        /\ req[r].signature = Header(InvalidSignatureText)
        /\ req[r].filtered

\* C20: a request whose header is the HMAC of its raw body under the
\* configured secret is accepted whatever the JSON formatting of that body
C20_RawBodyVerified ==
    \A r \in Reqs :
        (Done(r) /\ secret = SenderKey /\ ValidlySigned(r)) =>
            /\ Admitted(r)
            /\ req[r].res.code # 401

\* C21: for one inbound event at most one target API request is issued,
\* whatever the response: a failed call is never issued again, including
\* when the failure is classified retryable
C21_AtMostOneApiRequest ==
    \A r \in Reqs :
        /\ Len(req[r].calls) <= 1
        /\ req[r].oauth <= 1
        /\ req[r].tokenCalls <= 1

\* a call that failed with a retryable status has been answered, issued once
C21_Witness ==
    \E r \in Reqs :
        /\ OperationFailed(r)
        /\ req[r].apiStatus = 503
        /\ Get(mleResult(r), "retryable") = Bool(TRUE)
        /\ Len(req[r].calls) = 1

(***************************************************************************)
(* Specification of the metadata transformation alone: one metadata        *)
(* mapping and asset path, transformed once and, later, a second time      *)
(***************************************************************************)
\* a mapping with the key absent when the value is undefined
field(key, value) == IF value = Undef THEN EmptyObject.f ELSE key :> value

firstFieldValues ==
    {Undef, Str(""), Str("a"), Num(5),
     Arr(<<Str("a"), Str("b")>>), Arr(<<Str("a"), Str("a")>>)}

secondFieldValues ==
    {Undef, Str("a"), Num(5), Arr(<<Str("b"), Str("c")>>)}

\* mappings with values in one or both source fields of a union
unionSources(current, legacy) ==
    {Obj(field(current, v1) @@ field(legacy, v2)) :
        v1 \in firstFieldValues, v2 \in secondFieldValues}

otherSourceKeys ==
    {"myapp:color", "rep:policy", "jcr:primaryType",
     "dam:created", "dam:approvalStatus", "dc:title"}

uuidValues == {Undef, Str(""), Str("u1")}

formatValues ==
    {Undef, Str(""), Str("image/png"), Str("video/mp4"), Str("audio/mpeg"),
     Str("application/pdf"), Str("text/html"), Str("application/zip"),
     Str("multipart/related; type=text/xml"), Num(7)}

\* mappings whose fields do not depend on the asset path
TransformMetadata ==
    unionSources("cq:tags", "dam:tags")
    \cup unionSources("dc:subject", "dam:category")
    \cup {Obj(field("dc:keywords", v)) : v \in firstFieldValues}
    \cup {Obj([k \in keys |-> Str("v")]) : keys \in SUBSET otherSourceKeys}

\* mappings whose identifier and format fall back on the asset path
TransformPathMetadata ==
    {Obj(field("jcr:uuid", uuid) @@ field("dc:format", format)) :
        uuid \in uuidValues, format \in formatValues}

TransformPaths ==
    {"/content/dam/p.jpg", "/content/dam/Photo.JPG", "/content/dam/archive.tar.gz",
     "/content/dam/README", "/content/dam/.hidden", "/content/dam/name.",
     "/content/dam/clip.mov", "/content/dam/doc.pdf", "/content/dam/notes.txt",
     "/content/my.dir/README", "/content/dam/folder/",
     "/content/dam/report.constructor", "/content/dam/x.__proto__"}

TransformInputs ==
    {[metadata |-> metadata, assetPath |-> AssetPath] : metadata \in TransformMetadata}
    \cup {[metadata |-> metadata, assetPath |-> assetPath] :
            metadata \in TransformPathMetadata, assetPath \in TransformPaths}

TransformEventType == Str("com.adobe.aem.assets.created")

\* MetadataTransformer.transformForMLE(metadata, assetPath, eventType)
Transform ==
    /\ fnTrial.kind = "metadata"
    /\ fnTrial' = [fnTrial EXCEPT
            !.kind = "once",
            !.first = transformForMLE(fnTrial.metadata, Str(fnTrial.assetPath),
                                      TransformEventType)]
    /\ UNCHANGED <<secret, now, accessToken, tokenExpiry, req, sigTrial, act>>

\* the same call, made again
TransformAgain ==
    /\ fnTrial.kind = "once"
    /\ fnTrial' = [fnTrial EXCEPT
            !.kind = "twice",
            !.second = transformForMLE(fnTrial.metadata, Str(fnTrial.assetPath),
                                       TransformEventType)]
    /\ UNCHANGED <<secret, now, accessToken, tokenExpiry, req, sigTrial, act>>

InitTransform ==
    /\ secret = ""
    /\ now = 0
    /\ accessToken = Null
    /\ tokenExpiry = Null
    /\ req = [r \in Reqs |-> IdleReq]
    /\ act = NoActivation
    /\ sigTrial = NoTrial
    /\ \E input \in TransformInputs :
            fnTrial = [kind |-> "metadata", metadata |-> input.metadata,
                       assetPath |-> input.assetPath, first |-> Undef, second |-> Undef]

NextTransform ==
    \/ Transform
    \/ Tick
    \/ TransformAgain

SpecTransform == InitTransform /\ [][NextTransform]_vars

\* the transformation has produced a record
Transformed == fnTrial.kind \in {"once", "twice"} /\ fnTrial.first # Throw

NoDuplicates(items) ==
    \A i, j \in 1..Len(items) : i # j => items[i] # items[j]

\* C22: for every metadata mapping, each of the tags, categories and
\* keywords of the transformed record contains no value twice, including
\* when both source fields supply the same value and when a field holds a
\* scalar instead of a sequence
C22_NoDuplicates ==
    Transformed =>
        /\ NoDuplicates(fnTrial.first.tags)
        /\ NoDuplicates(fnTrial.first.categories)
        /\ NoDuplicates(fnTrial.first.keywords)

\* a sequence and a scalar that share a value have been merged
C22_Witness ==
    /\ Transformed
    /\ Get(fnTrial.metadata, "cq:tags") = Arr(<<Str("a"), Str("b")>>)
    /\ Get(fnTrial.metadata, "dam:tags") = Str("a")
    /\ fnTrial.first.tags = <<Str("a"), Str("b")>>

\* the source keys that transformForMLE maps into a fixed field
feedsFixedField ==
    {"dc:format", "jcr:uuid", "dam:size",
     "tiff:ImageWidth", "exif:PixelXDimension", "tiff:ImageLength", "exif:PixelYDimension",
     "dc:title", "jcr:title", "dc:description", "dam:altText",
     "cq:tags", "dam:tags", "dc:subject", "dam:category", "dc:keywords",
     "dam:brand", "dam:campaign", "dam:productType", "dam:usage",
     "dam:status", "dam:approvalStatus", "cq:workflowStatus",
     "jcr:created", "dam:created", "jcr:lastModified", "dam:lastModified",
     "tiff:ColorSpace", "tiff:XResolution", "tiff:Orientation",
     "dc:rights", "xmpRights:UsageTerms", "dc:creator"}

\* C23: customMetadata contains exactly the source keys that are neither
\* mapped into a fixed field nor under the prefixes 'jcr:' and 'rep:', each
\* with its value unchanged
C23_CustomMetadataExact ==
    Transformed =>
        LET metadata == fnTrial.metadata
            customMetadata == fnTrial.first.customMetadata
        IN  /\ Keys(customMetadata) =
                    {k \in Keys(metadata) :
                        /\ k \notin feedsFixedField
                        /\ ~StartsWith(k, "jcr:")
                        /\ ~StartsWith(k, "rep:")}
            /\ \A k \in Keys(customMetadata) : customMetadata.f[k] = metadata.f[k]

\* segment is the part of path after its last '/'
IsLastSegment(path, segment) ==
    /\ ~Includes(segment, "/")
    /\ \E prefix \in {SubSeq(path, 1, n) : n \in 0..Len(path)} :
            /\ path = prefix \o segment
            /\ prefix = "" \/ CharAt(prefix, Len(prefix)) = "/"

\* extension is the final extension of segment: a dot followed by at least
\* one character, none of them a dot; "" when the segment ends in no such part
IsFinalExtension(segment, extension) ==
    LET proper(e) == /\ Len(e) >= 2
                     /\ CharAt(e, 1) = "."
                     /\ ~Includes(SubSeq(e, 2, Len(e)), ".")
        suffixes == {SubSeq(segment, n, Len(segment)) : n \in 1..Len(segment)}
    IN  IF \E e \in suffixes : proper(e) THEN extension \in suffixes /\ proper(extension)
        ELSE extension = ""

\* C24: assetId equals metadata['jcr:uuid'] whenever that field is present
\* and non-empty, and otherwise the last '/'-separated segment of the asset
\* path with its final file extension removed
C24_AssetId ==
    Transformed =>
        LET uuid == Get(fnTrial.metadata, "jcr:uuid")
            assetId == fnTrial.first.assetId
        IN  IF uuid # Undef /\ uuid # Str("") THEN assetId = uuid
            ELSE /\ IsStr(assetId)
                 /\ \E segment \in {SubSeq(fnTrial.assetPath, n, Len(fnTrial.assetPath)) :
                                        n \in 1..(Len(fnTrial.assetPath) + 1)} :
                        /\ IsLastSegment(fnTrial.assetPath, segment)
                        /\ \E extension \in {SubSeq(segment, n, Len(segment)) :
                                                n \in 1..(Len(segment) + 1)} :
                                /\ IsFinalExtension(segment, extension)
                                /\ segment = assetId.s \o extension

\* the identifier of an asset with two extensions and no jcr:uuid
C24_Witness ==
    /\ Transformed
    /\ fnTrial.assetPath = "/content/dam/archive.tar.gz"
    /\ Get(fnTrial.metadata, "jcr:uuid") = Undef
    /\ fnTrial.first.assetId = Str("archive.tar")

\* the table entry for the lower-cased extension of the last path segment
tableMimeType(assetPath) ==
    LET segment == SplitPop(assetPath, "/")
        dot == LastIndexOf(segment, ".")
        extension == IF dot = 0 THEN "" ELSE ToLowerCase(SubSeq(segment, dot + 1, Len(segment)))
    IN  IF extension \in DOMAIN mimeTypes THEN Str(mimeTypes[extension])
        ELSE Str("application/octet-stream")

\* C25: mimeType equals metadata['dc:format'] when present, and otherwise the
\* table entry for the lower-cased file extension of the asset path, with
\* 'application/octet-stream' for every unknown or missing extension
C25_MimeType ==
    LET format == Get(fnTrial.metadata, "dc:format")
    IN  (fnTrial.kind \in {"once", "twice"} /\ format \in {Undef, Str("")}) =>
            /\ fnTrial.first # Throw
            /\ fnTrial.first.mimeType = tableMimeType(fnTrial.assetPath)

\* the media type the stated order gives for a mimeType
statedMediaType(mimeType) ==
    IF IsStr(mimeType) /\ StartsWith(mimeType.s, "image/") THEN "image"
    ELSE IF IsStr(mimeType) /\ StartsWith(mimeType.s, "video/") THEN "video"
    ELSE IF IsStr(mimeType) /\ StartsWith(mimeType.s, "audio/") THEN "audio"
    ELSE IF IsStr(mimeType) /\ Includes(mimeType.s, "pdf") THEN "document"
    ELSE IF IsStr(mimeType) /\ StartsWith(mimeType.s, "text/") THEN "text"
    ELSE IF ~Truthy(mimeType) THEN "unknown"
    ELSE "other"

\* C26: mediaType is derived from mimeType by first match: prefix 'image/'
\* -> image, prefix 'video/' -> video, prefix 'audio/' -> audio, contains
\* 'pdf' -> document, prefix 'text/' -> text, missing -> unknown, else other
C26_MediaType ==
    Transformed => fnTrial.first.mediaType = statedMediaType(fnTrial.first.mimeType)

C28_DraftAnsweredSkipped ==
    \A r \in Reqs :
        (/\ Done(r)
         /\ Admitted(r)
         /\ ValidlySigned(r)
         /\ bodyEventType(r) \in ProcessableTypes
         /\ Prop(bodyMetadata(r), "dam:status") = Str("draft")) =>
            /\ req[r].res.code = 200
            /\ Get(req[r].res.body, "status") = Str("skipped")

\* the event types the deployment guide tells the operator to subscribe to
subscribedEvents ==
    {Str("com.adobe.aem.assets.created"),
     Str("com.adobe.aem.assets.updated"),
     Str("com.adobe.aem.assets.published")}

\* C29: each event type of the deployment guide's subscription passes the
\* event-type filter and is processed rather than answered 'ignored'
C29_SubscribedEventsProcessed ==
    \A r \in Reqs :
        (Done(r) /\ Admitted(r) /\ bodyEventType(r) \in subscribedEvents) =>
            /\ req[r].entered
            /\ Get(req[r].res.body, "status") # Str("ignored")

(***************************************************************************)
(* The serverless action (adobe-io-runtime-action.js): main runs once per  *)
(* activation, from its parameters to its returned response                *)
(***************************************************************************)
requiredParams == <<"MLE_API_URL", "OAUTH_CLIENT_ID", "OAUTH_CLIENT_SECRET", "OAUTH_TOKEN_URL">>

\* validation that checks the configuration only
validateParams_ConfigurationOnly(params) ==
    LET missing == {i \in 1..Len(requiredParams) : ~Truthy(Get(params, requiredParams[i]))}
    IN  IF missing # {}
        THEN [valid |-> FALSE,
              error |-> "Missing required parameter: "
                            \o requiredParams[CHOOSE i \in missing : \A j \in missing : i <= j]]
        ELSE [valid |-> TRUE, error |-> ""]

validateParams(params) ==
    LET missing == {i \in 1..Len(requiredParams) : ~Truthy(Get(params, requiredParams[i]))}
    IN  IF missing # {}
        THEN [valid |-> FALSE,
              error |-> "Missing required parameter: "
                            \o requiredParams[CHOOSE i \in missing : \A j \in missing : i <= j]]
        ELSE IF ~Truthy(Get(params, "data")) \/ ~Truthy(Prop(Get(params, "data"), "payload"))
        THEN [valid |-> FALSE, error |-> "Missing event payload data"]
        ELSE [valid |-> TRUE, error |-> ""]

\* params.data.payload raises a TypeError when params.data is undefined
extractEventData(params) ==
    LET data == Get(params, "data")
        payload == Prop(data, "payload")
    IN  IF data \in {Undef, Null} \/ payload \in {Undef, Null} THEN Throw
        ELSE [assetPath |-> Or(Prop(payload, "path"), Prop(payload, "assetPath")),
              metadata |-> Or(Or(Prop(payload, "metadata"), Prop(payload, "properties")),
                              EmptyObject),
              eventType |-> Get(params, "type")]

\* approvalFields.some(...): "true", "false" or "throw"
actionIsAssetApproved(metadata) ==
    IF IsObj(metadata) THEN approvalScan(metadata, gateApprovalFields, 1) ELSE "false"

createErrorResponse(statusCode, message) ==
    [statusCode |-> statusCode,
     body |-> Obj([error |-> Str(message), timestamp |-> toISOString(now)])]

createSuccessResponse(status, message, data) ==
    [statusCode |-> 200,
     body |-> Obj([status |-> Str(status), message |-> Str(message),
                   timestamp |-> toISOString(now), data |-> data])]

\* the record of one activation
Activation(params) ==
    [pc |-> "running", params |-> params, eventData |-> NoEvent,
     op |-> "none", assetId |-> Undef, oauth |-> 0, calls |-> <<>>,
     apiStatus |-> -1, result |-> Null, res |-> [statusCode |-> 0]]

return(activation, response) == [activation EXCEPT !.pc = "done", !.res = response]

\* main's return after processSynchronization
returnSynchronized(activation, result) ==
    return([activation EXCEPT !.result = result],
           createSuccessResponse("completed", "Metadata synchronized successfully", result))

\* the catch block of processSynchronization, lines 443-450
actionCaught(activation) ==
    returnSynchronized(activation,
        Obj([mle |-> Null, status |-> Str("error"),
             errors |-> Arr(<<Obj([system |-> Str("MLE"), error |-> Str("TypeError"),
                                  retryable |-> Bool(TRUE)])>>),
             assetId |-> Get(activation.result, "assetId")]))

\* lines 434-441 of processSynchronization, then main's return
actionFinish(activation, syncResult) ==
    LET success == Get(syncResult, "success").b
        error == Obj([system |-> Str("MLE"), error |-> Get(syncResult, "error"),
                      retryable |-> Get(syncResult, "retryable")])
    IN  returnSynchronized(activation,
            Obj([mle |-> syncResult,
                 status |-> Str(IF success THEN "completed" ELSE "failed"),
                 errors |-> Arr(IF success THEN <<>> ELSE <<error>>),
                 assetId |-> Get(activation.result, "assetId")]))

\* the errors of the action are plain Error objects: they carry no response
actionError == [response |-> Undef]

\* the value returned by the catch block of sendToMLE, updateMLE, deleteFromMLE
actionOperationFailed(op, message) ==
    IF op = "remove" THEN Obj([success |-> Bool(FALSE), error |-> Str(message)])
    ELSE Obj([success |-> Bool(FALSE), error |-> Str(message),
              retryable |-> Bool(isRetryableError(actionError))])

\* the record built by the action's transformForMLE: the service's record
\* without publicUrl, apiVersion and customMetadata
actionTransformForMLE(metadata, assetPath, eventType) ==
    LET record == transformForMLE(metadata, assetPath, eventType)
    IN  IF record = Throw THEN Throw
        ELSE [k \in DOMAIN record \ {"publicUrl", "apiVersion", "customMetadata"} |->
                IF k = "assetUrl" THEN "https://your-aem-instance.com" \o assetPath.s
                ELSE record[k]]

\* main, up to its first await or to its return
main(params) ==
    LET activation == Activation(params)
        validation == validateParams(params)
        eventData == extractEventData(params)
    IN  IF ~validation.valid THEN return(activation, createErrorResponse(400, validation.error))
        ELSE IF eventData = Throw THEN return(activation, createErrorResponse(500, "TypeError"))
        ELSE LET approved == actionIsAssetApproved(eventData.metadata)
                 started == [activation EXCEPT !.eventData = eventData]
                 uuid == Prop(eventData.metadata, "jcr:uuid")
             IN  IF approved = "throw" THEN return(started, createErrorResponse(500, "TypeError"))
                 ELSE IF approved = "false"
                 THEN return(started,
                        createSuccessResponse("skipped", "Asset not approved for publication", Null))
                 ELSE IF ~Truthy(uuid) /\ ~IsStr(eventData.assetPath)
                 THEN return(started, createErrorResponse(500, "TypeError"))
                 ELSE LET result == Obj([mle |-> Null, status |-> Str("processing"),
                                         errors |-> Arr(<<>>),
                                         assetId |-> Or(uuid,
                                            Str(extractAssetIdFromPath(eventData.assetPath.s)))])
                          mleData == actionTransformForMLE(eventData.metadata,
                                        eventData.assetPath, eventData.eventType)
                          synchronizing == [started EXCEPT !.result = result]
                      IN  IF mleData = Throw \/ ~IsStr(eventData.eventType)
                          THEN actionCaught(synchronizing)
                          ELSE [synchronizing EXCEPT
                                    !.pc = "awaitToken",
                                    !.op = selectOperation(eventData.eventType.s),
                                    !.assetId = mleData.assetId,
                                    !.oauth = 1]

\* parameters of an activation
actionConfigurations ==
    {Obj([i \in present |-> Str("configured")]) :
        present \in SUBSET {requiredParams[i] : i \in 1..Len(requiredParams)}}

actionPayloads ==
    {Undef,
     EmptyObject,
     Obj([payload |-> Obj([path |-> Str(AssetPath), metadata |-> metadataSamples[2]])]),
     Obj([payload |-> Obj([path |-> Str(AssetPath), metadata |-> metadataSamples[3]])]),
     Obj([payload |-> Obj([assetPath |-> Str(AssetPath), properties |-> metadataSamples[2]])]),
     Obj([payload |-> Obj([path |-> Str(AssetPath), metadata |-> metadataSamples[8]])])}

actionEventTypes ==
    {Undef, Str("com.adobe.aem.assets.created"), Str("com.adobe.aem.assets.updated"),
     Str("com.adobe.aem.assets.deleted")}

ActionParams ==
    {Obj(configuration.f @@ field("data", data) @@ field("type", type)) :
        configuration \in actionConfigurations, data \in actionPayloads,
        type \in actionEventTypes}

\* the platform invokes main(params)
Invoke(params) ==
    /\ act.pc = "idle"
    /\ act' = main(params)
    /\ UNCHANGED <<secret, now, accessToken, tokenExpiry, req, sigTrial, fnTrial>>

\* getAccessToken returns the token; the operation issues its request
ActionTokenGranted ==
    /\ act.pc = "awaitToken"
    /\ act' = [act EXCEPT !.pc = "awaitApi",
                          !.calls = Append(@, operationRequest(act.op, act.assetId))]
    /\ UNCHANGED <<secret, now, accessToken, tokenExpiry, req, sigTrial, fnTrial>>

\* getAccessToken throws; the operation's catch returns its failure value
ActionTokenFailed ==
    /\ act.pc = "awaitToken"
    /\ act' = actionFinish(act, actionOperationFailed(act.op, "Failed to obtain access token"))
    /\ UNCHANGED <<secret, now, accessToken, tokenExpiry, req, sigTrial, fnTrial>>

\* the target API answers, or the fetch fails (status 0)
ActionApiResponse(status) ==
    /\ act.pc = "awaitApi"
    /\ LET answered == [act EXCEPT !.apiStatus = status]
       IN  act' = IF status \in 200..299
                  THEN actionFinish(answered, operationSucceeded(act.op, status))
                  ELSE actionFinish(answered, actionOperationFailed(act.op, "request failed"))
    /\ UNCHANGED <<secret, now, accessToken, tokenExpiry, req, sigTrial, fnTrial>>

\* the activation has returned; the next one starts from nothing
ActionEnd ==
    /\ act.pc = "done"
    /\ act' = NoActivation
    /\ UNCHANGED <<secret, now, accessToken, tokenExpiry, req, sigTrial, fnTrial>>

NextAction ==
    \/ \E params \in ActionParams : Invoke(params)
    \/ ActionTokenGranted
    \/ ActionTokenFailed
    \/ \E status \in ApiOutcomes : ActionApiResponse(status)
    \/ ActionEnd

SpecAction == InitConc /\ [][NextAction]_vars

\* a required configuration parameter or the event payload is missing
MissingParameter(params) ==
    \/ \E i \in 1..Len(requiredParams) : ~Truthy(Get(params, requiredParams[i]))
    \/ ~Truthy(Get(params, "data"))
    \/ ~Truthy(Prop(Get(params, "data"), "payload"))

\* C30: in the serverless action, when a required configuration parameter or
\* the event payload is missing, main returns status code 400 and issues no
\* token request and no target API call
C30_MissingParameterIs400 ==
    (act.pc # "idle" /\ MissingParameter(act.params)) =>
        /\ act.pc = "done"
        /\ act.res.statusCode = 400
        /\ act.oauth = 0
        /\ act.calls = <<>>

\* a fully configured activation without event payload has been answered 400
C30_Witness ==
    /\ act.pc = "done"
    /\ \A i \in 1..Len(requiredParams) : Truthy(Get(act.params, requiredParams[i]))
    /\ Get(act.params, "data") = EmptyObject
    /\ act.res.statusCode = 400


\* the result of a processed event that passed the approval gate
ProcessedApproved(r) ==
    /\ Done(r)
    /\ req[r].gate = "true"
    /\ req[r].res.code = 200
    /\ IsObj(req[r].result)

\* C31: the result object returned by the webhook for a processed approved
\* asset event has the properties 'pcm' and 'pim'
C31_ResultHasPcmAndPim ==
    \A r \in Reqs :
        ProcessedApproved(r) => {"pcm", "pim"} \subseteq Keys(req[r].result)

\* the activation ran processSynchronization and main has returned
Synchronized == act.pc = "done" /\ IsObj(act.result)

\* the outcome main reports: the status of the response body
reportedOutcome == Prop(act.res.body, "status")

\* C32: the serverless action reports the outcome 'completed' only when the
\* selected sync operation returned success:true; when the operation returned
\* success:false the reported outcome is 'failed', and when an exception was
\* caught it is 'error'
C32_CompletedOnlyOnSuccess ==
    Synchronized =>
        LET mle == Get(act.result, "mle")
        IN  /\ reportedOutcome = Str("completed") => Prop(mle, "success") = Bool(TRUE)
            /\ Prop(mle, "success") = Bool(FALSE) => reportedOutcome = Str("failed")
            /\ Get(act.result, "status") = Str("error") => reportedOutcome = Str("error")

\* C34: in the serverless action, sendToMLE and updateMLE classify a target
\* response with status 503 or 429 as retryable:true and a response with
\* status 404 or 400 as retryable:false
C34_ActionRetryable ==
    (Synchronized /\ act.op \in {"create", "update"}) =>
        LET mle == Get(act.result, "mle")
        IN  /\ act.apiStatus \in {503, 429} => Prop(mle, "retryable") = Bool(TRUE)
            /\ act.apiStatus \in {404, 400} => Prop(mle, "retryable") = Bool(FALSE)

\* C35: every payload dispatched to the target API has approvalStatus
\* 'approved': whenever the approval gate lets an event through, the
\* transformer's approvalStatus for the same metadata is 'approved'
C35_DispatchedIsApproved ==
    \A r \in Reqs :
        req[r].calls # <<>> =>
            transformForMLE(req[r].ev.metadata, req[r].ev.assetPath,
                            req[r].ev.eventType).approvalStatus = "approved"

\* a mapping whose values are strings, string sequences or numbers
InboundMetadata(metadata) ==
    /\ IsObj(metadata)
    /\ \A k \in Keys(metadata) : Get(metadata, k).t \in {"str", "arr", "num"}

\* some approval field holds a value that is not a string
NonStringStatus(metadata) ==
    \E i \in 1..Len(gateApprovalFields) :
        gateApprovalFields[i] \in Keys(metadata)
            /\ ~IsStr(Get(metadata, gateApprovalFields[i]))

\* C36: for every metadata mapping of the InboundEvent type the approval gate
\* ends with approved or not approved and never raises; a non-string value in
\* a status field leads to 'skipped', not to an exception or HTTP 500
C36_GateTotal ==
    \A r \in Reqs :
        (Done(r) /\ req[r].entered /\ InboundMetadata(req[r].ev.metadata)) =>
            /\ req[r].gate \in {"true", "false"}
            /\ (NonStringStatus(req[r].ev.metadata) /\ ~CarriesApproval(req[r].ev.metadata)) =>
                    /\ req[r].res.code = 200
                    /\ resultStatus(r) = Str("skipped")

\* C37: every result returned by processAssetEvent past the approval gate has
\* status completed, failed or error and never 'processing'; its errors list
\* is empty exactly when the status is 'completed' and holds exactly one entry
\* otherwise, and its mle field is null exactly when the status is 'error'
C37_ResultShape ==
    \A r \in Reqs :
        ProcessedApproved(r) =>
            /\ resultStatus(r) \in {Str("completed"), Str("failed"), Str("error")}
            /\ errorsOf(r).t = "arr"
            /\ Len(errorsOf(r).a) = (IF resultStatus(r) = Str("completed") THEN 0 ELSE 1)
            /\ (mleResult(r) = Null) <=> (resultStatus(r) = Str("error"))

\* a transform that raised ended as 'error' with one entry and no mle result
C37_Witness ==
    \E r \in Reqs :
        /\ ProcessedApproved(r)
        /\ resultStatus(r) = Str("error")
        /\ Len(errorsOf(r).a) = 1
        /\ mleResult(r) = Null
        /\ req[r].calls = <<>>


(***************************************************************************)
(* Specification of the two implementations side by side: the standalone   *)
(* service and the serverless action each receive one event and the        *)
(* answers of the token endpoint and of the target API                     *)
(***************************************************************************)
\* indices into eventTypes (created, deleted, page.viewed) and metadataSamples
BothEventTypes == {1, 3, 9}
BothMetadata == {2, 3}

\* the event as the service reads it: keys at the top level, validly signed
BothInput(et, md) ==
    [raw |-> rawBody(et, md, 2, 1), signature |-> signatureHeader("valid", rawBody(et, md, 2, 1))]

\* the event as the action reads it: params.type and params.data.payload
BothParams(et, md) ==
    Obj([i \in {requiredParams[j] : j \in 1..Len(requiredParams)} |-> Str("configured")]
        @@ field("data", Obj([payload |-> Obj([path |-> Str(AssetPath),
                                               metadata |-> metadataSamples[md]])]))
        @@ field("type", eventTypes[et]))

BothApiOutcomes == {200, 404, 500}

NextBoth ==
    \/ \E r \in Reqs, et \in BothEventTypes, md \in BothMetadata :
            Quiet(r) /\ WebhookPost(r, BothInput(et, md))
    \/ \E r \in Reqs : TokenGranted(r, "tokA", 120)
    \/ \E r \in Reqs : TokenFailed(r)
    \/ \E r \in Reqs, status \in BothApiOutcomes : ApiResponse(r, status)
    \/ \E et \in BothEventTypes, md \in BothMetadata : Invoke(BothParams(et, md))
    \/ ActionTokenGranted
    \/ ActionTokenFailed
    \/ \E status \in BothApiOutcomes : ActionApiResponse(status)

SpecBoth == InitConc /\ [][NextBoth]_vars

\* the answer of the token endpoint to a run: "none" when it was not asked
tokenAnswer(oauth, calls) ==
    IF oauth = 0 THEN "none" ELSE IF calls = <<>> THEN "failed" ELSE "granted"

\* both implementations have finished the same event, and each endpoint gave
\* the same answer to both (or was asked by one of them only)
SameEventSameResponses ==
    /\ Done(1)
    /\ act.pc = "done"
    /\ act.eventData = [assetPath |-> bodyPath(1), metadata |-> bodyMetadata(1),
                        eventType |-> bodyEventType(1)]
    /\ LET s == tokenAnswer(req[1].oauth, req[1].calls)
           a == tokenAnswer(act.oauth, act.calls)
       IN  s = "none" \/ a = "none" \/ s = a
    /\ req[1].apiStatus = -1 \/ act.apiStatus = -1 \/ req[1].apiStatus = act.apiStatus

\* terminal outcome of the service: 'ignored', or the status of its result
serviceOutcome ==
    IF req[1].res = ignoredResponse THEN Str("ignored") ELSE resultStatus(1)

\* terminal outcome of the action: the status of the synchronization result,
\* or the status of the response when there was no synchronization
actionOutcome ==
    IF IsObj(act.result) THEN Get(act.result, "status") ELSE reportedOutcome

\* C33: for the same event (type, asset path, metadata) and the same
\* responses of the token endpoint and the target API, the standalone service
\* and the serverless action reach the same terminal outcome and issue the
\* same target operation with the same retryable classification
C33_SameOutcome ==
    SameEventSameResponses =>
        /\ serviceOutcome = actionOutcome
        /\ req[1].calls = act.calls
        /\ Prop(mleResult(1), "retryable") = Prop(Prop(act.result, "mle"), "retryable")


(***************************************************************************)
(* Specification of the token cache under overlapping requests, with       *)
(* token responses that can be told apart: each access token is granted    *)
(* with a lifetime of its own                                              *)
(***************************************************************************)
\* expires_in, in seconds, of the response that carries each access token
grantLifetime == [tokA |-> 60, tokB |-> 120, tokC |-> 30]

GrantedTokens == DOMAIN grantLifetime

NextGrants ==
    \/ \E r \in Reqs, input \in ConcInputs : WebhookPost(r, input)
    \/ \E r \in Reqs, access_token \in GrantedTokens :
            TokenGranted(r, access_token, grantLifetime[access_token])
    \/ \E r \in Reqs : TokenFailed(r)
    \/ \E r \in Reqs : ApiResponse(r, 200)
    \/ Tick
    \/ \E r \in Reqs : Close(r)

SpecGrants == InitConc /\ [][NextGrants]_vars

\* the times at which a response can have arrived
PastTimes == {k * TickMs : k \in 0..(now \div TickMs)}

\* a getAccessToken call of request r returns the cached token in this step
ServedFromCache(r) ==
    /\ req'[r].tokenCalls = req[r].tokenCalls + 1
    /\ req'[r].pc = "awaitApi"

\* C38: under any interleaving of concurrent getAccessToken calls, the cached
\* accessToken and tokenExpiry always come from the same token response (both
\* unset, or both written by one successful response), and a call never
\* returns a cached token at a time when now >= tokenExpiry
C38_CacheCoherent ==
    [][/\ \/ accessToken' = Null /\ tokenExpiry' = Null
          \/ \E access_token \in GrantedTokens, t \in PastTimes :
                /\ accessToken' = Str(access_token)
                /\ tokenExpiry' = Num(t + grantLifetime[access_token] * 1000 - 60000)
       /\ \A r \in Reqs :
            (ServedFromCache(r) /\ req'[r].oauth = req[r].oauth) =>
                /\ req'[r].token = accessToken
                /\ now < tokenExpiry.n]_vars

\* two token requests overlapped, the cache holds the pair of the response
\* that arrived last, and the other request carries the other token
C38_Witness ==
    /\ accessToken = Str("tokB")
    /\ tokenExpiry = Num(grantLifetime["tokB"] * 1000 - 60000)
    /\ req[1].pc = "awaitApi"
    /\ req[1].token = Str("tokA")
    /\ req[2].pc = "awaitApi"
    /\ req[2].token = Str("tokB")

\* C39: the cached expiry is now + expires_in*1000 - 60000 milliseconds;
\* consequently a token granted with expires_in <= 60 seconds is never served
\* from the cache, and every getAccessToken call then issues a new OAuth
\* request
C39_ShortTokenNeverCached ==
    [][\A r \in Reqs :
        /\ (req[r].pc = "awaitToken" /\ req'[r].pc = "awaitApi") =>
                tokenExpiry' = Num(now + grantLifetime[req'[r].token.s] * 1000 - 60000)
        /\ (req'[r].tokenCalls = req[r].tokenCalls + 1 /\ IsStr(accessToken)
                /\ grantLifetime[accessToken.s] <= 60) =>
                /\ req'[r].pc = "awaitToken"
                /\ req'[r].oauth = req[r].oauth + 1]_vars

\* a token granted for 60 seconds is cached with an expiry equal to the time
\* of its grant, and the next call is waiting for the token endpoint again
C39_Witness ==
    /\ accessToken = Str("tokA")
    /\ tokenExpiry = Num(TickMs)
    /\ now = TickMs
    /\ req[1].pc = "done"
    /\ req[2].pc = "awaitToken"
    /\ req[2].oauth = 1

====
